---------------------------- MODULE Spec2Model ----------------------------
(***************************************************************************)
(* Model of app.py, the AI Business Launch Assistant page.                 *)
(*                                                                         *)
(* Text is a sequence of characters, each character a one-character        *)
(* string; the three non-ASCII code points of the prompt template are      *)
(* named "U+2705", "U+26A0" and "U+FE0F".  The state is the page's widget  *)
(* state, the locals of the "Generate Full Plan" handler and of            *)
(* query_agent, the log of outbound calls, and what has been rendered.     *)
(***************************************************************************)
EXTENDS Integers, Sequences, FiniteSets, TLC

VARIABLES
    pc,                 \* position of the handler / of query_agent
    graphviz_installed, \* app.py:11-15
    startup_input,      \* text area content passed to query_agent
    provider,           \* provider selector passed to query_agent
    search_results,     \* query_agent local, app.py:39
    prompt,             \* query_agent local, app.py:41-56
    calls,              \* outbound calls made for the current request, in order
    response,           \* the object the invoked backend returned
    summary,            \* handler local, app.py:97
    name_suggestions,   \* handler local, app.py:146-147
    rendered,           \* page elements emitted for the current request, in order
    error               \* the exception that ended the request, if any

vars == <<pc, graphviz_installed, startup_input, provider, search_results, prompt,
          calls, response, summary, name_suggestions, rendered, error>>

----------------------------------------------------------------------------
(* Character classes of the pattern at app.py:146 and of str.lower/strip.  *)

UpperSeq == <<"A","B","C","D","E","F","G","H","I","J","K","L","M","N","O","P","Q","R","S","T","U",
       "V","W","X","Y","Z">>

LowerSeq == <<"a","b","c","d","e","f","g","h","i","j","k","l","m","n","o","p","q","r","s","t","u",
       "v","w","x","y","z">>

DigitSeq == <<"0","1","2","3","4","5","6","7","8","9">>

Range(s) == {s[i] : i \in 1..Len(s)}

\* [A-Z]
Upper == Range(UpperSeq)

\* \d, restricted to the ASCII digits
Digit == Range(DigitSeq)

\* \s and str.isspace, restricted to the whitespace characters TLA+ can write
Space == {" ", "\t", "\n", "\r", "\f"}

\* [-\d]
DashDigit == {"-"} \cup Digit

\* [A-Za-z0-9\s]
NameChar == Upper \cup Range(LowerSeq) \cup Digit \cup Space

\* str.lower() on one character
LowerChar(c) ==
    IF c \in Upper THEN LowerSeq[CHOOSE i \in 1..Len(UpperSeq) : UpperSeq[i] = c] ELSE c

\* str.lower()
StrLower(s) == [i \in 1..Len(s) |-> LowerChar(s[i])]

\* The first index >= i of s whose character is outside class (Len(s)+1 if
\* none): where a greedy run of class that starts at i ends.
RECURSIVE RunEnd(_, _, _)
RunEnd(s, i, class) ==
    IF i <= Len(s) /\ s[i] \in class THEN RunEnd(s, i + 1, class) ELSE i

\* The last index <= j of s whose character is outside class (0 if none).
RECURSIVE RunStart(_, _, _)
RunStart(s, j, class) ==
    IF j >= 1 /\ s[j] \in class THEN RunStart(s, j - 1, class) ELSE j

\* str.strip()
Strip(s) == SubSeq(s, RunEnd(s, 1, Space), RunStart(s, Len(s), Space))

----------------------------------------------------------------------------
(* re.findall(r"[-\d]*\.?\s*([A-Z][A-Za-z0-9\s]+)", summary), app.py:146.   *)
(* The classes [-\d], \., \s and [A-Z] are pairwise disjoint, so giving     *)
(* back characters of a greedy run can never let the next item match:      *)
(* an attempt at a position succeeds with the greedy choices or not at all. *)

\* Index of the first character of group 1 for an attempt at position p.
GroupStart(s, p) ==
    LET afterDash == RunEnd(s, p, DashDigit)
        afterDot  == IF afterDash <= Len(s) /\ s[afterDash] = "." THEN afterDash + 1
                     ELSE afterDash
    IN  RunEnd(s, afterDot, Space)

\* Whether the pattern matches at position p.
MatchesAt(s, p) ==
    LET g == GroupStart(s, p)
    IN  g + 1 <= Len(s) /\ s[g] \in Upper /\ s[g + 1] \in NameChar

\* The captures of the non-overlapping matches found scanning from p on.
RECURSIVE FindAllFrom(_, _)
FindAllFrom(s, p) ==
    IF p > Len(s) THEN <<>>
    ELSE IF MatchesAt(s, p)
         THEN LET g == GroupStart(s, p)
                  e == RunEnd(s, g + 1, NameChar)
              IN  <<SubSeq(s, g, e - 1)>> \o FindAllFrom(s, e)
         ELSE FindAllFrom(s, p + 1)

FindAll(s) == FindAllFrom(s, 1)

\* The filter that keeps the captures unstripped
RECURSIVE FilterUnstripped(_)
FilterUnstripped(caps) ==
    IF caps = <<>> THEN <<>>
    ELSE (IF Len(Strip(Head(caps))) > 2 THEN <<Head(caps)>> ELSE <<>>)
         \o FilterUnstripped(Tail(caps))

\* [n.strip() for n in name_suggestions if len(n.strip()) > 2], app.py:147
RECURSIVE StripAndFilter(_)
StripAndFilter(caps) ==
    IF caps = <<>> THEN <<>>
    ELSE LET n == Strip(Head(caps))
         IN  (IF Len(n) > 2 THEN <<n>> ELSE <<>>) \o StripAndFilter(Tail(caps))

\* name_suggestions[:5], app.py:151
MaxShown == 5

\* The extraction that takes the first five captures before filtering them
ExtractNamesCapFirst(s) ==
    LET caps == FindAll(s)
    IN  StripAndFilter(SubSeq(caps, 1, IF Len(caps) < MaxShown THEN Len(caps) ELSE MaxShown))

\* name_suggestions as the handler computes it, app.py:146-147
ExtractNames(s) == StripAndFilter(FindAll(s))

TopNames(names) == SubSeq(names, 1, IF Len(names) < MaxShown THEN Len(names) ELSE MaxShown)

----------------------------------------------------------------------------
(* query_agent, app.py:38-70.                                              *)

\* The f-string of app.py:41-56 up to {startup_input}
PromptHead == <<"\n","Y","o","u"," ","a","r","e"," ","a"," ","s","t","a","r","t","u","p"," ","b",
       "u","s","i","n","e","s","s"," ","c","o","n","s","u","l","t","a","n","t","."," ",
       "\n","I","n","p","u","t",":"," ">>

\* ... between {startup_input} and {search_results}
PromptMid == <<"\n","U","s","e"," ","s","e","a","r","c","h"," ","r","e","s","u","l","t","s",":"," ">>

\* ... after {search_results}
PromptTail == <<"\n","\n","O","u","t","p","u","t"," ","a"," ","c","l","e","a","n",","," ","a","c",
       "t","i","o","n","a","b","l","e",","," ","s","h","o","r","t"," ","s","u","m","m","a",
       "r","y"," ","f","o","r"," ","a"," ","n","o","n","-","t","e","c","h"," ","p","e","r",
       "s","o","n"," ","i","n","c","l","u","d","i","n","g",":","\n","-"," ","I","d","e",
       "a","\n","-"," ","M","a","r","k","e","t"," ","o","v","e","r","v","i","e","w","\n",
       "-"," ","B","u","d","g","e","t"," ","b","r","e","a","k","d","o","w","n","\n","-",
       " ","S","t","e","p","-","b","y","-","s","t","e","p"," ","a","c","t","i","o","n"," ",
       "p","l","a","n"," ","w","i","t","h"," ","r","e","g","i","s","t","r","a","t","i","o",
       "n"," ","&"," ","s","e","t","u","p","\n","-"," ","4","-","w","e","e","k"," ","l",
       "a","u","n","c","h"," ","t","i","m","e","l","i","n","e","\n","-"," ","M","a","r",
       "k","e","t","i","n","g"," ","p","l","a","n"," ","w","i","t","h"," ","U+2705"," ",
       "g","o","o","d"," ","/"," ","U+26A0","U+FE0F"," ","l","e","s","s"," ","e","f","f",
       "e","c","t","i","v","e","\n","-"," ","F","e","a","s","i","b","i","l","i","t","y",
       " ","s","c","o","r","e"," ","&"," ","s","u","g","g","e","s","t","e","d"," ","K","P",
       "I","s","\n","-"," ","3","-","5"," ","u","n","i","q","u","e"," ","s","t","a","r",
       "t","u","p"," ","n","a","m","e"," ","s","u","g","g","e","s","t","i","o","n","s"," ",
       "(","b","u","l","l","e","t"," ","p","o","i","n","t","s"," ","o","n","l","y",")",
       "\n","L","i","m","i","t"," ","e","a","c","h"," ","s","e","c","t","i","o","n"," ",
       "t","o"," ","1","-","3"," ","s","e","n","t","e","n","c","e","s"," ","o","r"," ","s",
       "i","m","p","l","e"," ","t","a","b","l","e"," ","f","o","r","m","a","t",".","\n">>

\* A template that leaves the search results out
BuildPromptNoSearch(idea, searchText) == PromptHead \o idea \o PromptMid \o PromptTail

\* prompt = f"""...""", app.py:41-56: both values are interpolated as they are
BuildPrompt(idea, searchText) == PromptHead \o idea \o PromptMid \o searchText \o PromptTail

Gemini == <<"g","e","m","i","n","i">>

\* The branch without the lowering of app.py:57
SelectBackendExact(p) == IF p = Gemini THEN "gemini" ELSE "groq"

\* provider = provider.lower(); if provider == "gemini": ... else: ..., app.py:57-64
SelectBackend(p) == IF StrLower(p) = Gemini THEN "gemini" ELSE "groq"

\* msgs, app.py:65-68
GroqMessages(p) ==
    << <<"system", <<"Y","o","u"," ","a","r","e"," ","a"," ","h","e","l","p","f","u","l"," ","A","I"," ",
       "a","s","s","i","s","t","a","n","t",".">>>>, <<"human", p>> >>

\* What is sent to the selected backend, app.py:60-61 and 65-69
Request(backend, p) ==
    IF backend = "gemini"
    THEN [to |-> "gemini", model |-> "gemini-2.5-flash", arg |-> <<p>>]
    ELSE [to |-> "groq", model |-> "llama-3.3-70b-versatile", arg |-> GroqMessages(p)]

\* The object a backend returns: Gemini's carries its text in .text, Groq's
\* in .content
ResponseObject(backend, t) ==
    IF backend = "gemini" THEN [backend |-> "gemini", text |-> t]
    ELSE [backend |-> "groq", content |-> t]

\* return response.text (app.py:62) or return out.content (app.py:70)
ReturnValue(r) == IF r.backend = "gemini" THEN r.text ELSE r.content

NoResponse == [backend |-> "none"]

----------------------------------------------------------------------------
(* The fixed data of the handler, app.py:95-154.                           *)

FileName == "startup_summary.txt"

\* timeline_data and the arguments of px.timeline, app.py:111-127
TimelineData ==
    [Week    |-> <<"W1", "W2", "W3", "W4">>,
     Tasks   |-> <<<<"R","e","g","i","s","t","e","r"," ","+"," ","s","o","u","r","c","e"," ","i","n","g",
       "r","e","d","i","e","n","t","s">>,
                   <<"S","e","t"," ","u","p"," ","k","i","t","c","h","e","n"," ","+"," ","h","i","r","e",
       " ","h","e","l","p","e","r","s">>,
                   <<"T","e","s","t"," ","d","e","l","i","v","e","r","y"," ","+"," ","s","m","a","l","l",
       " ","b","a","t","c","h"," ","l","a","u","n","c","h">>,
                   <<"F","u","l","l"," ","l","a","u","n","c","h"," ","+"," ","s","o","c","i","a","l"," ",
       "m","e","d","i","a"," ","m","a","r","k","e","t","i","n","g">>>>,
     x_start |-> <<0, 7, 14, 21>>,
     x_end   |-> <<7, 14, 21, 28>>]

\* tasks, app.py:136
MindMapTasks ==
    <<<<"R","e","g","i","s","t","e","r">>, <<"K","i","t","c","h","e","n"," ","S","e","t","u","p">>, <<"S","o","u","r","c","e"," ","I","n","g","r","e","d","i","e","n","t","s">>, <<"M","a","r","k","e","t","i","n","g">>, <<"L","a","u","n","c","h">>>>

\* startup_input.split(" ")[0], app.py:135: the text before the first " "
SplitFirst(s) == SubSeq(s, 1, RunEnd(s, 1, Range(s) \ {" "}) - 1)

\* f'B{i}', app.py:138-139
ChildId(i) == <<"B", DigitSeq[i + 1]>>

\* dot = Digraph(...); dot.node(...); for ...: dot.node, dot.edge, app.py:134-139
MindMap(idea) ==
    [nodes |-> <<[id |-> <<"A">>, label |-> SplitFirst(idea) \o <<" ","I","d","e","a">>]>>
               \o [i \in 1..Len(MindMapTasks) |-> [id |-> ChildId(i), label |-> MindMapTasks[i]]],
     edges |-> [i \in 1..Len(MindMapTasks) |-> <<<<"A">>, ChildId(i)>>]]

\* f"**{i}. {name}**" for i, name in enumerate(name_suggestions[:5], start=1),
\* app.py:151-152
NameLines(names) ==
    [i \in 1..Len(TopNames(names)) |->
        [name |-> names[i],
         markdown |-> <<"*", "*", DigitSeq[i + 1], ".", " ">> \o names[i] \o <<"*", "*">>]]

----------------------------------------------------------------------------
(* Inputs.                                                                 *)

\* The text area's default, app.py:85
DefaultIdea == <<"I"," ","w","a","n","t"," ","t","o"," ","l","a","u","n","c","h"," ","a"," ","v","e",
       "g","a","n"," ","s","n","a","c","k"," ","s","t","a","r","t","u","p"," ","i","n"," ",
       "B","a","n","g","a","l","o","r","e"," ","w","i","t","h"," ","$","1","0","k">>

\* Descriptions the user may type: the default, a plain one, and two words
\* with every combination of leading and separating whitespace
Ideas ==
    {DefaultIdea, <<"v","e","g","a","n"," ","s","n","a","c","k"," ","s","t","a","r","t","u","p"," ","i",
       "n"," ","B","a","n","g","a","l","o","r","e"," ","w","i","t","h"," ","$","1","0","k">>}
    \cup {lead \o <<"v","e","g","a","n">> \o sep \o <<"s","n","a","c","k">> :
            lead \in {<<>>, <<" ">>, <<"\t">>}, sep \in {<<" ">>, <<"\t">>, <<"\n">>}}

\* The options of the radio, app.py:89-93
RadioOptions == {Gemini, <<"g","r","o","q">>}

\* Selector values a direct caller of query_agent may pass
Selectors ==
    RadioOptions \cup {<<"G","e","m","i","n","i">>, <<"G","E","M","I","N","I">>, <<"g","e","m","i","n","i"," ">>, <<"o","p","e","n","a","i">>, <<>>}

\* Texts the search service may return
SearchTexts == {<<"B","a","n","g","a","l","o","r","e"," ","s","n","a","c","k"," ","m","a","r","k","e",
       "t"," ","g","r","o","w","i","n","g">>, <<"I","n","p","u","t",":"," ","{","s","t","a","r","t","u","p","_","i","n","p","u","t",
       "}">>}

\* A numbered list followed by a lowercase bullet
NumberedList == <<"1","."," ","V","e","g","a","n","B","i","t","e","s","\n","2","."," ","G","r","e",
       "e","n","S","n","a","c","k"," ","C","o","\n","-"," ","p","l","a","i","n"," ","t",
       "e","x","t">>

\* A plan with one header per requested section and the names as bullets
SectionedPlan == <<"I","d","e","a",":"," ","v","e","g","a","n"," ","s","n","a","c","k","s","\n","M",
       "a","r","k","e","t"," ","o","v","e","r","v","i","e","w",":"," ","g","r","o","w","i",
       "n","g","\n","B","u","d","g","e","t"," ","b","r","e","a","k","d","o","w","n",":",
       " ","$","1","0","k","\n","A","c","t","i","o","n"," ","p","l","a","n",":"," ","r",
       "e","g","i","s","t","e","r","\n","T","i","m","e","l","i","n","e",":"," ","4"," ",
       "w","e","e","k","s","\n","M","a","r","k","e","t","i","n","g"," ","p","l","a","n",
       ":"," ","s","o","c","i","a","l"," ","m","e","d","i","a","\n","F","e","a","s","i",
       "b","i","l","i","t","y"," ","s","c","o","r","e",":"," ","7","/","1","0","\n","N",
       "a","m","e"," ","s","u","g","g","e","s","t","i","o","n","s",":","\n","-"," ","S",
       "n","a","c","k","C","o","\n","-"," ","G","r","e","e","n","B","i","t","e">>

\* A plan whose only capitalized phrases are its bulleted names
BulletsOnly == <<"n","a","m","e"," ","i","d","e","a","s",":","\n","-"," ","S","n","a","c","k","C",
       "o","\n","-"," ","G","r","e","e","n","B","i","t","e","\n","-"," ","p","l","a","i",
       "n"," ","t","e","x","t","\n">>

\* A plan with no capitalized phrase
NoCapitals == <<"n","o"," ","p","l","a","n"," ","c","o","u","l","d"," ","b","e"," ","w","r","i","t",
       "t","e","n",","," ","s","o","r","r","y",".">>

\* Texts a generation backend may return
BackendTexts == {NumberedList, SectionedPlan, BulletsOnly, NoCapitals}

\* Fragments of a summary: a short capitalized word, a bulleted name, a
\* section header, and a lowercase bullet
Pieces == {<<"G","o","."," ">>, <<"-"," ","S","n","a","c","k","C","o","\n">>, <<"I","d","e","a",":"," ">>, <<"-"," ","p","l","a","i","n"," ","t","e","x","t","\n">>}

MaxPieces == 7

\* Every concatenation of at most k pieces
RECURSIVE Concats(_)
Concats(k) ==
    IF k = 0 THEN {<<>>}
    ELSE LET shorter == Concats(k - 1)
         IN  shorter \cup {s \o p : s \in shorter, p \in Pieces}

\* Texts a generation backend may return, for the name extraction
Summaries == BackendTexts \cup Concats(MaxPieces)

----------------------------------------------------------------------------
(* The page: the script up to the button (app.py:74-95) and the handler.   *)

NoText == <<>>

\* The state of a request that has not started: nothing called or rendered
Fresh ==
    /\ search_results = NoText
    /\ prompt = NoText
    /\ calls = <<>>
    /\ response = NoResponse
    /\ summary = NoText
    /\ name_suggestions = <<>>
    /\ rendered = <<>>
    /\ error = "none"

\* The page as first served: the widgets hold their defaults, app.py:83-93
Init ==
    /\ pc = "idle"
    /\ graphviz_installed \in BOOLEAN
    /\ startup_input = DefaultIdea
    /\ provider = Gemini
    /\ Fresh

\* The user sets the two widgets and presses "Generate Full Plan": the script
\* reruns from the top, which clears the previous run's output, and enters
\* the handler, app.py:83-97
Click ==
    /\ pc \in {"idle", "done", "failed"}
    /\ \E idea \in Ideas, p \in RadioOptions :
          /\ startup_input' = idea
          /\ provider' = p
    /\ pc' = "search"
    /\ search_results' = NoText
    /\ prompt' = NoText
    /\ calls' = <<>>
    /\ response' = NoResponse
    /\ summary' = NoText
    /\ name_suggestions' = <<>>
    /\ rendered' = <<>>
    /\ error' = "none"
    /\ UNCHANGED graphviz_installed

\* search_results = tavily_search(startup_input) and the prompt built from
\* it, app.py:34-35 and 39-56; the search raises or returns a text
Search ==
    /\ pc = "search"
    /\ calls' = Append(calls, [to |-> "tavily", arg |-> startup_input])
    /\ \/ \E t \in SearchTexts :
             /\ search_results' = t
             /\ prompt' = BuildPrompt(startup_input, t)
             /\ pc' = "dispatch"
             /\ UNCHANGED error
       \/ /\ pc' = "failed"
          /\ error' = "search"
          /\ UNCHANGED <<search_results, prompt>>
    /\ UNCHANGED <<graphviz_installed, startup_input, provider, response, summary,
                   name_suggestions, rendered>>

\* A dispatcher that falls back to the other backend when the selected one
\* raises
DispatchWithFallback ==
    /\ pc = "dispatch"
    /\ LET backend == SelectBackend(provider)
           other   == IF backend = "gemini" THEN "groq" ELSE "gemini"
       IN  \/ \E t \in BackendTexts :
                 /\ calls' = Append(calls, Request(backend, prompt))
                 /\ response' = ResponseObject(backend, t)
           \/ \E t \in BackendTexts :
                 /\ calls' = Append(Append(calls, Request(backend, prompt)),
                                    Request(other, prompt))
                 /\ response' = ResponseObject(other, t)
    /\ summary' = ReturnValue(response')
    /\ pc' = "returned"
    /\ UNCHANGED <<graphviz_installed, startup_input, provider, search_results, prompt,
                   name_suggestions, rendered, error>>

\* The branch on the selector and the one call it makes, app.py:57-70, and
\* the assignment of the returned value to summary, app.py:97; the backend
\* raises or returns a response
Dispatch ==
    /\ pc = "dispatch"
    /\ LET backend == SelectBackend(provider)
       IN  /\ calls' = Append(calls, Request(backend, prompt))
           /\ \/ \E t \in BackendTexts :
                    /\ response' = ResponseObject(backend, t)
                    /\ summary' = ReturnValue(response')
                    /\ pc' = "returned"
                    /\ UNCHANGED error
              \/ /\ pc' = "failed"
                 /\ error' = "generation"
                 /\ UNCHANGED <<response, summary>>
    /\ UNCHANGED <<graphviz_installed, startup_input, provider, search_results, prompt,
                   name_suggestions, rendered>>

\* One page element
Element(slot, data) == [slot |-> slot, data |-> data]

\* What the steps after query_agent leave alone
RenderFrame ==
    UNCHANGED <<graphviz_installed, startup_input, provider, search_results, prompt,
                calls, response, summary, error>>

\* st.subheader("Business Summary"); st.markdown(summary), app.py:99-100
RenderSummary ==
    /\ pc = "returned"
    /\ rendered' = Append(rendered, Element("plan_text", summary))
    /\ pc' = "download"
    /\ UNCHANGED name_suggestions
    /\ RenderFrame

\* A download that offers the stripped text
DownloadElementStripped(s) == Element("download", [data |-> Strip(s), file_name |-> FileName])

\* st.download_button(data=summary, file_name=...), app.py:102-107
DownloadElement(s) == Element("download", [data |-> s, file_name |-> FileName])

RenderDownload ==
    /\ pc = "download"
    /\ rendered' = Append(rendered, DownloadElement(summary))
    /\ pc' = "timeline"
    /\ UNCHANGED name_suggestions
    /\ RenderFrame

\* The timeline chart, app.py:110-129
RenderTimeline ==
    /\ pc = "timeline"
    /\ rendered' = Append(rendered, Element("timeline", TimelineData))
    /\ pc' = "mindmap"
    /\ UNCHANGED name_suggestions
    /\ RenderFrame

\* A mind map block that draws the graph without looking at the flag
MindMapElementUnguarded(installed, idea) == Element("mind_map", MindMap(idea))

\* The mind map, or the warning when graphviz is absent, app.py:132-142
MindMapElement(installed, idea) ==
    IF installed THEN Element("mind_map", MindMap(idea))
    ELSE Element("warning", "Graphviz not installed -> Mind Map skipped")

RenderMindMap ==
    /\ pc = "mindmap"
    /\ rendered' = Append(rendered, MindMapElement(graphviz_installed, startup_input))
    /\ pc' = "names"
    /\ UNCHANGED name_suggestions
    /\ RenderFrame

\* The name suggestions, or the note when there are none, app.py:149-154
NamesElement(names) ==
    IF names # <<>> THEN Element("names", NameLines(names))
    ELSE Element("info", "No name suggestions found in the summary.")

\* The extraction and its display, app.py:146-154
RenderNames ==
    /\ pc = "names"
    /\ name_suggestions' = ExtractNames(summary)
    /\ rendered' = Append(rendered, NamesElement(name_suggestions'))
    /\ pc' = "done"
    /\ RenderFrame

Next ==
    \/ Click
    \/ Search
    \/ Dispatch
    \/ RenderSummary
    \/ RenderDownload
    \/ RenderTimeline
    \/ RenderMindMap
    \/ RenderNames

Spec == Init /\ [][Next]_vars

----------------------------------------------------------------------------
(* query_agent called directly, with any selector.                         *)

InitAgent ==
    /\ pc = "search"
    /\ graphviz_installed \in BOOLEAN
    /\ startup_input \in Ideas
    /\ provider \in Selectors
    /\ Fresh

NextAgent ==
    \/ Search
    \/ Dispatch

SpecAgent == InitAgent /\ [][NextAgent]_vars

----------------------------------------------------------------------------
(* The name extraction on every summary, from the handler's position       *)
(* before app.py:146.                                                      *)

\* The request whose summary is extracted: the plain idea, sent to Groq, on a
\* host with graphviz
NamesIdea == <<"v","e","g","a","n"," ","s","n","a","c","k"," ","s","t","a","r","t","u","p"," ","i",
       "n"," ","B","a","n","g","a","l","o","r","e"," ","w","i","t","h"," ","$","1","0","k">>

NamesSearchText == <<"B","a","n","g","a","l","o","r","e"," ","s","n","a","c","k"," ","m","a","r","k","e",
       "t"," ","g","r","o","w","i","n","g">>

InitNames ==
    /\ pc = "names"
    /\ graphviz_installed = TRUE
    /\ startup_input = NamesIdea
    /\ provider = <<"g","r","o","q">>
    /\ search_results = NamesSearchText
    /\ prompt = BuildPrompt(NamesIdea, NamesSearchText)
    /\ calls = <<[to |-> "tavily", arg |-> NamesIdea], Request("groq", prompt)>>
    /\ summary \in Summaries
    /\ response = ResponseObject("groq", summary)
    /\ name_suggestions = <<>>
    /\ rendered = <<Element("plan_text", summary), DownloadElement(summary),
                    Element("timeline", TimelineData),
                    MindMapElement(graphviz_installed, NamesIdea)>>
    /\ error = "none"

NextNames == RenderNames

SpecNames == InitNames /\ [][NextNames]_vars
----------------------------------------------------------------------------
(* Properties.                                                             *)

\* needle occurs in hay as a substring
Contains(hay, needle) ==
    \E i \in 0..(Len(hay) - Len(needle)) : SubSeq(hay, i + 1, i + Len(needle)) = needle

\* The calls of the current request that went to a generation backend
BackendCalls == SelectSeq(calls, LAMBDA c : c.to \in {"gemini", "groq"})

\* The text carried by the response the backend returned
ResponseText == IF response.backend = "gemini" THEN response.text ELSE response.content

\* query_agent has made its dispatch: it returned or the backend raised
Dispatched == pc \notin {"idle", "search", "dispatch"} /\ error # "search"

\* a and b are equal up to the case of their ASCII letters
EqualsIgnoringCase(a, b) ==
    /\ Len(a) = Len(b)
    /\ \A i \in 1..Len(a) :
          \/ a[i] = b[i]
          \/ \E k \in 1..Len(UpperSeq) : {a[i], b[i]} = {UpperSeq[k], LowerSeq[k]}

\* The names shown in the fifth slot, in order
ShownNames ==
    IF Len(rendered) >= 5 /\ rendered[5].slot = "names"
    THEN [i \in 1..Len(rendered[5].data) |-> rendered[5].data[i].name]
    ELSE <<>>

\* C1, as stated: once query_agent has made its dispatch, it has invoked
\* exactly one generation backend exactly once, Gemini when the selector is
\* "gemini" and Groq for any other value, and what it returned is the text
\* of that backend's response.
C1_BackendBySelectorAsGiven ==
    Dispatched =>
        /\ Len(BackendCalls) = 1
        /\ BackendCalls[1].to = (IF provider = Gemini THEN "gemini" ELSE "groq")
        /\ pc = "returned" =>
              /\ response.backend = BackendCalls[1].to
              /\ summary = ResponseText

\* C1, amended: no request makes more than one generation backend call;
\* once query_agent has made its dispatch, it has invoked exactly one backend
\* exactly once, Gemini when the selector equals "gemini" up to letter case
\* and Groq for any other value, and what it returned, if the backend
\* answered, is the text of that backend's response.
C1_BackendByLoweredSelector ==
    /\ Len(BackendCalls) <= 1
    /\ Dispatched =>
          /\ Len(BackendCalls) = 1
          /\ BackendCalls[1].to =
                (IF EqualsIgnoringCase(provider, Gemini) THEN "gemini" ELSE "groq")
          /\ pc = "returned" =>
                /\ response.backend = BackendCalls[1].to
                /\ summary = ResponseText

\* C1 witness: query_agent returned Gemini's text for the selector "GEMINI"
C1_Witness ==
    /\ pc = "returned"
    /\ provider = <<"G","E","M","I","N","I">>
    /\ Len(BackendCalls) = 1
    /\ BackendCalls[1].to = "gemini"
    /\ summary = ResponseText
    /\ summary # NoText

\* C2: a failed search leaves the request failed with no generation backend
\* called; a failed generation leaves it failed with that one backend call
\* and no other (no retry, no fallback); in both cases nothing is rendered;
\* and no request ever makes a second generation call or renders anything
\* without a response.
C2_FailureAborts ==
    /\ error \in {"none", "search", "generation"}
    /\ Len(BackendCalls) <= 1
    /\ error = "search" =>
          /\ pc = "failed"
          /\ BackendCalls = <<>>
          /\ rendered = <<>>
    /\ error = "generation" =>
          /\ pc = "failed"
          /\ Len(BackendCalls) = 1
          /\ BackendCalls[1].to = SelectBackend(provider)
          /\ response.backend = "none"
          /\ rendered = <<>>
    /\ pc = "failed" => error # "none"
    /\ rendered # <<>> => response.backend # "none" /\ error = "none"

\* C2 witness: Groq was selected and raised; the request is failed
C2_Witness ==
    /\ pc = "failed"
    /\ error = "generation"
    /\ provider = <<"g","r","o","q">>
    /\ Len(calls) = 2
    /\ calls[2].to = "groq"

\* C3: for the summary "1. VeganBites\n2. GreenSnack Co\n- plain text" the
\* extracted names are exactly VeganBites and GreenSnack Co, in that order.
C3_NumberedListNames ==
    (pc = "done" /\ summary = NumberedList) =>
        name_suggestions = <<<<"V","e","g","a","n","B","i","t","e","s">>, <<"G","r","e","e","n","S","n","a","c","k"," ","C","o">>>>

\* The indices of the captures whose stripped text is longer than two
KeptIndices(caps) == {i \in 1..Len(caps) : Len(Strip(caps[i])) > 2}

\* C4: the names shown are the stripped captures longer than two characters,
\* in order of appearance with duplicates kept, cut after the fifth: the
\* j-th name shown is the j-th kept capture, and min(5, number kept) names
\* are shown.
C4_FirstFiveAfterFilter ==
    pc = "done" =>
        LET caps == FindAll(summary)
            kept == KeptIndices(caps)
            n    == Cardinality(kept)
        IN  /\ Len(ShownNames) = (IF n < 5 THEN n ELSE 5)
            /\ Len(ShownNames) <= 5
            /\ \A j \in 1..Len(ShownNames) :
                  \E k \in kept :
                     /\ Cardinality({i \in kept : i <= k}) = j
                     /\ ShownNames[j] = Strip(caps[k])

\* C4 witness: more than five captures are kept, a capture before the fifth
\* kept one is discarded, and a name is shown twice
C4_Witness ==
    /\ pc = "done"
    /\ Len(ShownNames) = 5
    /\ LET caps == FindAll(summary)
       IN  /\ Cardinality(KeptIndices(caps)) > 5
           /\ 1 \notin KeptIndices(caps)
    /\ ShownNames[1] = ShownNames[2]

\* s has a line that is exactly the given text
HasLine(s, line) ==
    \E i \in 1..(Len(s) - Len(line) + 1) :
        /\ SubSeq(s, i, i + Len(line) - 1) = line
        /\ i = 1 \/ s[i - 1] = "\n"
        /\ i + Len(line) - 1 = Len(s) \/ s[i + Len(line)] = "\n"

\* s has at least two section headers (texts ended by a colon)
MultiSection(s) == Cardinality({i \in 1..Len(s) : s[i] = ":"}) >= 2

\* C5: when Groq returned a multi-section summary that has the bullet line
\* "- SnackCo", the names shown include SnackCo.
C5_BulletNameShown ==
    (/\ pc = "done"
     /\ response.backend = "groq"
     /\ MultiSection(summary)
     /\ HasLine(summary, <<"-"," ","S","n","a","c","k","C","o">>)) =>
        \E j \in 1..Len(ShownNames) : ShownNames[j] = <<"S","n","a","c","k","C","o">>

\* The number of elements rendered when the handler is at a position
RenderedAt(p) ==
    CASE p = "download" -> 1
      [] p = "timeline" -> 2
      [] p = "mindmap"  -> 3
      [] p = "names"    -> 4
      [] p = "done"     -> 5
      [] OTHER          -> 0

\* C6: what is rendered is always the first elements of the fixed order plan
\* text, download, timeline, mind map or warning (the warning exactly when
\* graphviz is absent), names or note (the note exactly when no name was
\* extracted), each once, as many as the handler's position says, all five
\* when it is done; and a request that has rendered anything has not failed.
C6_FixedRenderOrder ==
    /\ Len(rendered) = RenderedAt(pc)
    /\ \A i \in 1..Len(rendered) :
          rendered[i].slot =
             CASE i = 1 -> "plan_text"
               [] i = 2 -> "download"
               [] i = 3 -> "timeline"
               [] i = 4 -> (IF graphviz_installed THEN "mind_map" ELSE "warning")
               [] i = 5 -> (IF name_suggestions = <<>> THEN "info" ELSE "names")
    /\ rendered # <<>> => error = "none" /\ pc # "failed"

\* C6 witness: the request is done with graphviz absent and no name found
C6_Witness ==
    /\ pc = "done"
    /\ ~graphviz_installed
    /\ name_suggestions = <<>>
    /\ Len(rendered) = 5
    /\ rendered[4].slot = "warning"
    /\ rendered[5].slot = "info"

\* The lines of the template that request the eight sections
SectionLabels ==
    {<<"-"," ","I","d","e","a","\n">>, <<"-"," ","M","a","r","k","e","t"," ","o","v","e","r","v","i","e","w","\n">>, <<"-"," ","B","u","d","g","e","t"," ","b","r","e","a","k","d","o","w","n","\n">>,
     <<"a","c","t","i","o","n"," ","p","l","a","n">>, <<"-"," ","4","-","w","e","e","k"," ","l","a","u","n","c","h"," ","t","i","m","e","l",
       "i","n","e","\n">>, <<"-"," ","M","a","r","k","e","t","i","n","g"," ","p","l","a","n">>,
     <<"-"," ","F","e","a","s","i","b","i","l","i","t","y"," ","s","c","o","r","e"," ","&",
       " ","s","u","g","g","e","s","t","e","d"," ","K","P","I","s","\n">>, <<"s","t","a","r","t","u","p"," ","n","a","m","e"," ","s","u","g","g","e","s","t","i",
       "o","n","s">>}

\* C7: once the prompt is built it contains the idea, the search text and
\* the eight section labels.
C7_PromptContainsInputs ==
    (pc \in {"dispatch", "returned"} \/ error = "generation") =>
        /\ startup_input # NoText /\ search_results # NoText
        /\ Contains(prompt, startup_input)
        /\ Contains(prompt, search_results)
        /\ \A label \in SectionLabels : Contains(prompt, label)

\* C7 witness: a prompt was built from a search text that itself looks like
\* a line of the template, and sent
C7_Witness ==
    /\ pc = "returned"
    /\ search_results = <<"I","n","p","u","t",":"," ","{","s","t","a","r","t","u","p","_","i","n","p","u","t",
       "}">>
    /\ Contains(prompt, startup_input \o PromptMid \o search_results)

\* C8: the plan text shown and the download payload both equal the text of
\* the response the selected backend returned, and the download is named
\* startup_summary.txt.
C8_SummaryVerbatim ==
    /\ Len(rendered) >= 1 =>
          /\ rendered[1].data = ResponseText
          /\ response.backend = BackendCalls[1].to
    /\ Len(rendered) >= 2 =>
          /\ rendered[2].data.data = ResponseText
          /\ rendered[2].data.file_name = "startup_summary.txt"
    /\ pc \in {"returned", "download", "timeline", "mindmap", "names", "done"} =>
          summary = ResponseText

\* C8 witness: a response that ends with a line break was shown and offered
\* for download
C8_Witness ==
    /\ Len(rendered) >= 2
    /\ ResponseText = BulletsOnly
    /\ rendered[1].data = BulletsOnly
    /\ rendered[2].data.data = BulletsOnly

\* The first whitespace-delimited token of s (s.split()[0]), empty if none
FirstToken(s) ==
    LET lo == RunEnd(s, 1, Space)
    IN  SubSeq(s, lo, RunEnd(s, lo, Range(s) \ Space) - 1)

\* C9: a rendered mind map is a star: one root labelled with the first
\* whitespace-delimited token of the description followed by " Idea", the
\* five fixed children, and one edge from the root to each child.
C9_StarRootedAtFirstToken ==
    (Len(rendered) >= 4 /\ rendered[4].slot = "mind_map") =>
        LET g == rendered[4].data
        IN  /\ Len(g.nodes) = 6
            /\ g.nodes[1].label = FirstToken(startup_input) \o <<" ","I","d","e","a">>
            /\ \A i \in 1..5 : g.nodes[i + 1].label = MindMapTasks[i]
            /\ \A i, j \in 1..6 : i # j => g.nodes[i].id # g.nodes[j].id
            /\ Len(g.edges) = 5
            /\ \A i \in 1..5 : g.edges[i] = <<g.nodes[1].id, g.nodes[i + 1].id>>

\* C10: every name shown starts with an uppercase ASCII letter, has at least
\* three characters, neither starts nor ends with whitespace, and is made of
\* ASCII letters, digits and whitespace only.
C10_ShownNamesWellFormed ==
    \A j \in 1..Len(ShownNames) :
        LET n == ShownNames[j]
        IN  /\ Len(n) >= 3
            /\ n[1] \in Range(UpperSeq)
            /\ n[1] \notin Space /\ n[Len(n)] \notin Space
            /\ \A i \in 1..Len(n) :
                  n[i] \in Range(UpperSeq) \cup Range(LowerSeq) \cup Range(DigitSeq) \cup Space

\* C10 witness: a name with a line break and a digit inside is shown
C10_Witness ==
    /\ pc = "done"
    /\ Len(ShownNames) >= 1
    /\ ShownNames[1] = <<"V","e","g","a","n","B","i","t","e","s","\n","2">>
=============================================================================
